---- MODULE Spec2Model ----
(***************************************************************************)
(* The chapter reordering controller of the audiobook admin console: the   *)
(* Chapters page (drag and drop, debounced persistence, cross-page moves,  *)
(* rollback), the chapters slice of the Redux store it reads and writes,   *)
(* and the chapters endpoints of the content API it talks to.              *)
(*                                                                         *)
(* React runs a render and the effects it schedules before the next user   *)
(* event, timer or network response is handled.  The model keeps that      *)
(* order: while the fetch effect still has to run (Rendered is false) no   *)
(* other action is enabled.  The effect that copies the store's chapters   *)
(* into localChapters runs with every change of the store's list, so it is *)
(* part of each action that changes that list (SyncLocal).                 *)
(*                                                                         *)
(* A request to the content API is answered in one step: the server        *)
(* applies or reads its state and the client handles the response,         *)
(* together with the part of the waiting handler that runs up to its next  *)
(* await.  A failed request leaves the server's state as it was.           *)
(***************************************************************************)
EXTENDS Integers, Sequences, FiniteSets, Bags, TLC

(***************************************************************************)
(* Bounds of the model.                                                    *)
(***************************************************************************)
\* user gestures (drops and page clicks) in one behaviour
MaxGestures == 3
\* user gestures in one behaviour of the specification with fairness
LiveGestures == 2
\* requests that fail in one behaviour
MaxFail == 1
\* largest chapterNumber on the server when the page is opened
MaxInitNum == 4
\* smallest chapterNumber of the signed data model (taken as -MinNumAbs)
MinNumAbs == 2

\* chapters the server returns per page (PaginationInfo.itemsPerPage) when the
\* audiobook has two pages, and when all its chapters fit one page
PageSize == 2
SinglePageSize == 3

\* the chapters of the audiobook: two full pages, or one
ChapterIds == 1..(2 * PageSize)
SinglePageIds == 1..SinglePageSize

NoId == 0
NoPagination == 0
NoToken == 0

\* access tokens the authentication endpoint hands out are 1..MaxToken
MaxToken == 1
\* HTTP requests counted in one behaviour of the routing specification
MaxHttp == 2
\* chapters of the largest audiobook chapters are deleted from
MaxDeleteChapters == 5

VARIABLES
    server,            \* content API: chapter id -> chapterNumber
    itemsPerPage,      \* content API: chapters per page
    net,               \* requests in flight (a bag)
    chapters,          \* store: state.chapters.chapters
    pagination,        \* store: state.chapters.pagination (its totalPages, 0 = null)
    loading,           \* store: state.chapters.loading
    currentPage,       \* store: state.chapters.currentPage
    effPage,           \* currentPage of the render whose fetch effect ran last (0 = not mounted)
    localChapters,     \* component state localChapters (displayedOrder)
    originalOrderRef,  \* originalOrderRef.current (lastKnownGoodOrder)
    timerArmed,        \* a debounce timeout is set and has not fired
    timerPage,         \* currentPage captured by the armed timeout's closure
    pendingUpdateRef,  \* pendingUpdateRef.current (chapterId 0 = null)
    debounceTimeoutRef,\* debounceTimeoutRef.current: the timeout set last (0 = null)
    timeouts,          \* the timeouts that are set and have neither fired nor been cleared
    gestures,          \* history: number of gestures so far
    drags,             \* history: drops so far, their chapters, and whether an update failed since the last
    fails,             \* history: failed requests so far
    sent,              \* history: update calls issued so far, and their chapters
    last,              \* history: the step taken last
    sched,             \* history: schedulings since the timer fired last, the last one, and the gesture of the first
    preDrag,           \* history: localChapters before the last in-page drop
    xmove,             \* history: the last cross-page move (with the rollback snapshot at its drop) or page change
    server0,           \* history: the server's chapterNumbers when the page was opened
    applied,           \* history: the first list displayed with every in-page drop applied in turn
    isAuthenticated,   \* store: state.auth.isAuthenticated
    sessionAuth,       \* sessionStorage 'isAuthenticated' is 'true'
    accessToken,       \* sessionStorage 'accessToken' (0 = not stored)
    location,          \* the router's current path
    element,           \* what the router rendered for location: a page, or a Navigate
    initPending,       \* the AuthInitializer effect has not run since the app loaded
    gateway,           \* history: the gateway call made last and how it ended
    httpRequests       \* history: HTTP requests the gateway calls have sent

vars == <<server, itemsPerPage, net, chapters, pagination, loading, currentPage, effPage,
          localChapters, originalOrderRef, timerArmed, timerPage,
          pendingUpdateRef, debounceTimeoutRef, timeouts, gestures, drags, fails, sent,
          last, sched, preDrag, xmove, server0, applied, isAuthenticated, sessionAuth, accessToken, location, element,
          initPending, gateway, httpRequests>>

authVars == <<isAuthenticated, sessionAuth, accessToken, location, element, initPending,
              gateway, httpRequests>>
chapterVars == <<server, itemsPerPage, net, chapters, pagination, loading, currentPage,
                 effPage, localChapters, originalOrderRef, timerArmed, timerPage,
                 pendingUpdateRef, debounceTimeoutRef, timeouts, gestures, drags, fails,
                 sent, last, sched, preDrag, xmove, server0, applied>>

storeVars == <<chapters, pagination, loading, currentPage>>
histVars == <<gestures, drags, fails, sent, last, sched, preDrag, xmove, server0, applied>>

(***************************************************************************)
(* Chapters and lists of chapters.                                         *)
(***************************************************************************)
Chapter(i, n) == [id |-> i, chapterNumber |-> n]

Max(a, b) == IF a >= b THEN a ELSE b

\* Math.floor(x / 2) of an integer x: \div rounds toward minus infinity
FloorHalf(x) == x \div 2

RECURSIVE InsertSorted(_, _)
InsertSorted(s, x) ==
    IF s = <<>> THEN <<x>>
    ELSE IF Head(s).chapterNumber <= x.chapterNumber
         THEN <<Head(s)>> \o InsertSorted(Tail(s), x)
         ELSE <<x>> \o s

\* [...list].sort((a, b) => a.chapterNumber - b.chapterNumber): a stable sort
RECURSIVE SortByNumber(_)
SortByNumber(s) ==
    IF s = <<>> THEN <<>>
    ELSE InsertSorted(SortByNumber(SubSeq(s, 1, Len(s) - 1)), s[Len(s)])

\* list.findIndex(chapter => chapter.id === i), 1-based, 0 when absent
FindIndex(s, i) ==
    IF \E k \in 1..Len(s) : s[k].id = i
    THEN CHOOSE k \in 1..Len(s) : s[k].id = i /\ \A j \in 1..(k - 1) : s[j].id # i
    ELSE 0

RemoveAt(s, k) == SubSeq(s, 1, k - 1) \o SubSeq(s, k + 1, Len(s))

InsertAt(s, k, x) == SubSeq(s, 1, k - 1) \o <<x>> \o SubSeq(s, k, Len(s))

\* variant: the elements at from and to change places
arrayMoveSwap(s, from, to) == [s EXCEPT ![from] = s[to], ![to] = s[from]]

\* arrayMove of @dnd-kit/sortable: remove at from, insert at to
arrayMove(s, from, to) == InsertAt(RemoveAt(s, from), to, s[from])

IdsOf(s) == {s[k].id : k \in 1..Len(s)}

(***************************************************************************)
(* The content API.  GET /audiobooks/{id}/chapters?page=p answers with the *)
(* p-th window of the audiobook's chapters in ascending chapterNumber      *)
(* (ties by id) and the page count; the chapters of a window are listed in *)
(* id order, so the client's own sort decides what is displayed.           *)
(***************************************************************************)
Rank(srv, i) ==
    1 + Cardinality({j \in DOMAIN srv :
                        \/ srv[j] < srv[i]
                        \/ srv[j] = srv[i] /\ j < i})

PageIds(srv, size, p) ==
    {i \in DOMAIN srv : Rank(srv, i) \in ((p - 1) * size + 1)..(p * size)}

RECURSIVE AscSeq(_)
AscSeq(S) ==
    IF S = {} THEN <<>>
    ELSE LET m == CHOOSE x \in S : \A y \in S : x <= y
         IN  <<m>> \o AscSeq(S \ {m})

\* response.data of getChapters(audiobookId, page)
ResponseData(srv, size, p) ==
    LET ids == AscSeq(PageIds(srv, size, p))
    IN  [k \in 1..Len(ids) |-> Chapter(ids[k], srv[ids[k]])]

\* response.pagination.totalPages of getChapters
TotalPages(srv, size) == (Cardinality(DOMAIN srv) + size - 1) \div size

\* DELETE /chapters/{id}
ApplyDelete(srv, i) == [j \in DOMAIN srv \ {i} |-> srv[j]]

\* PUT /chapters/{id} with body {chapterNumber}
ApplyUpdate(srv, i, n) == [srv EXCEPT ![i] = n]

(***************************************************************************)
(* Requests in flight.  cont names the code that waits for the response:   *)
(*   none       nothing waits (dispatch without await)                     *)
(*   recoverUpd, recoverDb, recoverX                                       *)
(*              the re-fetch of a catch block (after the debounced update, *)
(*              after its refresh, in a cross-page move); nothing waits    *)
(*   dbUpdate   the debounce timer's update                                *)
(*   dbFetch    the debounce timer's refresh after its update              *)
(*   xAdj       handleDragEnd's fetch of the adjacent page                 *)
(*   xUpd       handleDragEnd's update of the moved chapter                *)
(*   xRef1      handleDragEnd's refresh of the target page                 *)
(*   xRef2      handleDragEnd's refresh of the original page               *)
(* cpage, target and active are the closure's currentPage, targetPage and  *)
(* activeId.  tag is history: the schedulings the debounced update stands  *)
(* for and the order displayed before the last of them.                    *)
(***************************************************************************)
NoTag == [k |-> 0, pre |-> <<>>]

FetchReq(page, cont, cpage, target, active, tag) ==
    [kind |-> "fetch", page |-> page, id |-> NoId, num |-> 0, cont |-> cont,
     cpage |-> cpage, target |-> target, active |-> active, tag |-> tag]

UpdateReq(id, num, cont, cpage, target, active, tag) ==
    [kind |-> "update", page |-> 0, id |-> id, num |-> num, cont |-> cont,
     cpage |-> cpage, target |-> target, active |-> active, tag |-> tag]

DeleteReq(id, cpage, target) ==
    [kind |-> "delete", page |-> 0, id |-> id, num |-> 0, cont |-> "del",
     cpage |-> cpage, target |-> target, active |-> id, tag |-> NoTag]

Issue(bag, r) == bag (+) SetToBag({r})

Answer(bag, r) == bag (-) SetToBag({r})

\* variant: the completion of an update call never reaches the controller
InFlightFetchOnly == {r \in BagToSet(net) : r.kind = "fetch"}

InFlight == BagToSet(net)

NullUpdate == [chapterId |-> NoId, newChapterNumber |-> 0]

(***************************************************************************)
(* Authentication and routing: the auth slice, sessionStorage, the routes  *)
(* of App with ProtectedRoute, Login, the logout of ProfileDropdown, and   *)
(* the authorization headers of the gateway calls.                         *)
(***************************************************************************)
ChaptersPath == "/audiobooks/1/chapters"

\* the paths of <Route path=...> inside the ProtectedRoute layout
ProtectedPaths ==
    {"/home", "/audiobooks", ChaptersPath, "/analytics", "/dashboard", "/management",
     "/inbox"}

\* "/other" stands for every path that only <Route path="*"> matches
Paths == {"/", "/other"} \cup ProtectedPaths

ProtectedPages == {"Home", "Audiobooks", "Chapters", "Dashboard", "Management", "Inbox"}

Page(name) == [page |-> name, navigate |-> ""]

\* <Navigate to=... replace />
Navigate(to) == [page |-> "", navigate |-> to]

\* the element of a route inside the layout
RouteElement(path) ==
    CASE path = "/home" -> Page("Home")
      [] path = "/audiobooks" -> Page("Audiobooks")
      [] path = ChaptersPath -> Page("Chapters")
      [] path = "/analytics" -> Navigate("/dashboard")
      [] path = "/dashboard" -> Page("Dashboard")
      [] path = "/management" -> Page("Management")
      [] path = "/inbox" -> Page("Inbox")

\* variant: the children are rendered whatever the auth state
ProtectedRouteOpen(auth, children) == children

\* ProtectedRoute: if (!isAuthenticated) return <Navigate to="/" replace />
ProtectedRoute(auth, children) == IF ~auth THEN Navigate("/") ELSE children

\* what <Routes> renders for a path when the store's auth flag is auth
Element(path, auth) ==
    IF path = "/" THEN Page("Login")
    ELSE IF path \in ProtectedPaths THEN ProtectedRoute(auth, RouteElement(path))
    ELSE Navigate("/home")

\* Login's effect: if (isAuthenticated() || isAuth) navigate('/home')
LoginRedirects == element.page = "Login" /\ (sessionAuth \/ isAuthenticated)

\* Home's effect: navigate('/audiobooks')
HomeRedirects == element.page = "Home"

\* effects of the last render that have not run yet
EffectsPending == initPending \/ element.navigate # "" \/ LoginRedirects \/ HomeRedirects

NoCall == [fn |-> "", error |-> "", sent |-> FALSE]

\* the app is opened or reloaded at a path: the store starts from its initial
\* state, sessionStorage is kept
Load(path) ==
    /\ isAuthenticated' = FALSE
    /\ location' = path
    /\ element' = Element(path, FALSE)
    /\ initPending' = TRUE
    /\ UNCHANGED <<sessionAuth, accessToken, gateway, httpRequests>>
    /\ UNCHANGED chapterVars

\* the effects of the last render: AuthInitializer, Navigate, Login's redirect
RunEffects ==
    /\ EffectsPending
    /\ isAuthenticated' = (isAuthenticated \/ (initPending /\ sessionAuth))
    /\ initPending' = FALSE
    /\ location' = IF element.navigate # "" THEN element.navigate
                   ELSE IF LoginRedirects THEN "/home"
                   ELSE IF HomeRedirects THEN "/audiobooks"
                   ELSE location
    /\ element' = Element(location', isAuthenticated')
    /\ UNCHANGED <<sessionAuth, accessToken, gateway, httpRequests>>
    /\ UNCHANGED chapterVars

\* an audiobook card's chapters button: navigate(`/audiobooks/${id}/chapters`)
OpenChapters ==
    /\ ~EffectsPending
    /\ element.page = "Audiobooks"
    /\ location' = ChaptersPath
    /\ element' = Element(ChaptersPath, isAuthenticated)
    /\ UNCHANGED <<isAuthenticated, sessionAuth, accessToken, initPending, gateway,
                   httpRequests>>
    /\ UNCHANGED chapterVars

\* the Chapters page's back button: navigate('/audiobooks')
BackToAudiobooks ==
    /\ ~EffectsPending
    /\ element.page = "Chapters"
    /\ location' = "/audiobooks"
    /\ element' = Element("/audiobooks", isAuthenticated)
    /\ UNCHANGED <<isAuthenticated, sessionAuth, accessToken, initPending, gateway,
                   httpRequests>>
    /\ UNCHANGED chapterVars

\* login(): the access token stored from a successful response
StoredToken(old, responseAccessToken, responseToken) ==
    IF responseAccessToken # NoToken THEN responseAccessToken
    ELSE IF responseToken # NoToken THEN responseToken
    ELSE old

\* Login's handleSubmit with a response of the authentication endpoint
handleSubmit(ok, responseAccessToken, responseToken) ==
    /\ ~EffectsPending
    /\ element.page = "Login"
    /\ IF ok
       THEN /\ accessToken' = StoredToken(accessToken, responseAccessToken, responseToken)
            /\ sessionAuth' = TRUE
            /\ isAuthenticated' = TRUE
            /\ location' = "/home"
            /\ element' = Element("/home", TRUE)
       ELSE UNCHANGED <<accessToken, sessionAuth, isAuthenticated, location, element>>
    /\ UNCHANGED <<initPending, gateway, httpRequests>>
    /\ UNCHANGED chapterVars

\* ProfileDropdown's handleLogout with the outcome of the logout call
handleLogout(ok) ==
    /\ ~EffectsPending
    /\ element.page \in ProtectedPages
    /\ accessToken' = IF ok THEN NoToken ELSE accessToken
    /\ isAuthenticated' = FALSE
    /\ sessionAuth' = FALSE
    /\ location' = "/"
    /\ element' = Element("/", FALSE)
    /\ UNCHANGED <<initPending, gateway, httpRequests>>
    /\ UNCHANGED chapterVars

\* variant: the headers are built without looking at the token
getAuthHeadersUnchecked(token) == [error |-> "", message |-> "", authorization |-> token]

\* getAuthHeaders: throws { message, error: 'TokenNotFound' } when no token is stored
getAuthHeaders(token) ==
    IF token = NoToken
    THEN [error |-> "TokenNotFound", message |-> "Access token not found. Please login again.",
          authorization |-> NoToken]
    ELSE [error |-> "", message |-> "", authorization |-> token]

\* getAuthHeadersForFileUpload: the same check, headers without Content-Type
getAuthHeadersForFileUpload(token) ==
    IF token = NoToken
    THEN [error |-> "TokenNotFound", message |-> "Access token not found. Please login again.",
          authorization |-> NoToken]
    ELSE [error |-> "", message |-> "", authorization |-> token]

\* handleApiError: a TypeError becomes NetworkError, an object with a message is
\* returned as it is, anything else becomes UnknownError
handleApiError(error) ==
    IF error.error = "TypeError" THEN [error EXCEPT !.error = "NetworkError"]
    ELSE IF error.message # "" THEN error
    ELSE [error EXCEPT !.error = "UnknownError"]

GatewayFunctions == {"getChapters", "updateChapter", "deleteChapter"}

\* the catch block of a gateway function: deleteChapter rethrows an object that
\* has a message and an error, the others throw handleApiError(error)
Rethrown(fn, error) ==
    IF fn = "deleteChapter" /\ error.message # "" /\ error.error # "" THEN error
    ELSE handleApiError(error)

\* a gateway call of the Chapters page, up to the point where its HTTP request
\* has been sent or its try block has thrown
GatewayCall(fn, hasFiles) ==
    LET headers == IF fn = "updateChapter" /\ hasFiles
                   THEN getAuthHeadersForFileUpload(accessToken)
                   ELSE getAuthHeaders(accessToken)
        thrown == headers.error # ""
    IN  /\ ~EffectsPending
        /\ element.page = "Chapters"
        /\ httpRequests < MaxHttp
        /\ gateway' = IF thrown
                      THEN [fn |-> fn, error |-> Rethrown(fn, headers).error, sent |-> FALSE]
                      ELSE [fn |-> fn, error |-> "", sent |-> TRUE]
        /\ httpRequests' = IF thrown THEN httpRequests ELSE httpRequests + 1
        /\ UNCHANGED <<isAuthenticated, sessionAuth, accessToken, location, element,
                       initPending>>
        /\ UNCHANGED chapterVars

\* the Chapters page is displayed to a signed-in user
InitSignedIn ==
    /\ isAuthenticated = TRUE
    /\ sessionAuth = TRUE
    /\ accessToken \in 1..MaxToken
    /\ location = ChaptersPath
    /\ element = Element(ChaptersPath, TRUE)
    /\ initPending = FALSE
    /\ gateway = NoCall
    /\ httpRequests = 0

(***************************************************************************)
(* The state after construction: the store's initial state, the component  *)
(* not yet mounted (its fetch effect has not run).                         *)
(***************************************************************************)
Ascending(f) == \A i, j \in DOMAIN f : i < j => f[i] < f[j]

NoMove == [phase |-> "none", from |-> 0, target |-> 0, active |-> NoId, pre |-> <<>>]

Step(op, cont, active, over) ==
    [op |-> op, cont |-> cont, active |-> active, over |-> over, tag |-> NoTag]

StepOf(op, r) ==
    [op |-> op, cont |-> r.cont, active |-> r.active, over |-> NoId, tag |-> r.tag]

\* history of an update call issued for chapter i through the path via
Sent(i, via) ==
    [debounce |-> sent.debounce + (IF via = "debounce" THEN 1 ELSE 0),
     cross |-> sent.cross + (IF via = "cross" THEN 1 ELSE 0),
     ids |-> IF via = "debounce" THEN sent.ids \cup {i} ELSE sent.ids,
     xids |-> IF via = "cross" THEN sent.xids \cup {i} ELSE sent.xids]

InitClient ==
    /\ net = EmptyBag
    /\ chapters = <<>>
    /\ pagination = NoPagination
    /\ loading = FALSE
    /\ currentPage = 1
    /\ effPage = 0
    /\ localChapters = <<>>
    /\ originalOrderRef = <<>>
    /\ timerArmed = FALSE
    /\ timerPage = 0
    /\ pendingUpdateRef = NullUpdate
    /\ debounceTimeoutRef = 0
    /\ timeouts = {}
    /\ gestures = 0
    /\ drags = [inpage |-> 0, cross |-> 0, ids |-> {}, xids |-> {}, failed |-> FALSE]
    /\ fails = 0
    /\ sent = [debounce |-> 0, cross |-> 0, ids |-> {}, xids |-> {}]
    /\ last = Step("init", "none", NoId, NoId)
    /\ sched = [k |-> 0, chapterId |-> NoId, newChapterNumber |-> 0, since |-> 0]
    /\ preDrag = <<>>
    /\ xmove = NoMove
    /\ applied = <<>>

\* an audiobook of two pages whose chapterNumbers are those this console assigns
Init ==
    /\ itemsPerPage = PageSize
    /\ server \in {f \in [ChapterIds -> 1..MaxInitNum] : Ascending(f)}
    /\ server0 = server
    /\ InitClient
    /\ InitSignedIn

\* an audiobook of one page whose chapterNumbers are any the data model allows
\* (signed integers, not necessarily distinct)
NonDecreasing(f) == \A i, j \in DOMAIN f : i < j => f[i] <= f[j]

InitNum ==
    /\ itemsPerPage = SinglePageSize
    /\ server \in {f \in [SinglePageIds -> (0 - MinNumAbs)..MaxInitNum] : NonDecreasing(f)}
    /\ server0 = server
    /\ InitClient
    /\ InitSignedIn

(***************************************************************************)
(* The store's reducers and the component's effects.                       *)
(***************************************************************************)
\* every effect of the last render has run
Rendered == effPage = currentPage

\* the chapterNumber the create form proposes: one more than the largest
\* chapterNumber of the store's chapters, 1 when the store has none
nextChapterNumber ==
    LET sortedChapters == SortByNumber(chapters)
    IN  IF Len(sortedChapters) > 0
        THEN sortedChapters[Len(sortedChapters)].chapterNumber + 1
        ELSE 1

\* the list and the pagination bar are rendered: !loading && chapters.length > 0
ListShown == Rendered /\ ~loading /\ Len(chapters) > 0

\* useEffect(..., [chapters]): localChapters and originalOrderRef follow the store
SyncLocal(list) ==
    /\ localChapters' = SortByNumber(list)
    /\ originalOrderRef' = SortByNumber(list)

\* useEffect(..., [dispatch, id, currentPage]): setCurrentAudiobookId(id), then
\* fetchChapters of the page this render saw
FetchEffect ==
    /\ ~Rendered
    /\ effPage' = currentPage
    /\ currentPage' = 1
    /\ chapters' = <<>>
    /\ pagination' = NoPagination
    /\ SyncLocal(<<>>)
    /\ loading' = TRUE
    /\ net' = Issue(net, FetchReq(currentPage, "none", 0, 0, NoId, NoTag))
    /\ last' = Step("effect", "none", NoId, NoId)
    /\ UNCHANGED <<server, itemsPerPage, timerArmed, timerPage, pendingUpdateRef,
                   gestures, drags, fails, sent, sched, preDrag, xmove, server0, applied,
                   authVars,
                   debounceTimeoutRef, timeouts>>

\* the buttons of the Pagination bar that can be clicked, by the page they ask for
PageButtons ==
    (1..pagination)
        \cup (IF currentPage # 1 THEN {currentPage - 1} ELSE {})
        \cup (IF currentPage # pagination THEN {currentPage + 1} ELSE {})

handlePageChange(page) ==
    /\ ListShown
    /\ pagination > 1
    /\ page \in PageButtons
    /\ gestures < MaxGestures
    /\ currentPage' = page
    /\ loading' = TRUE
    /\ net' = Issue(net, FetchReq(page, "none", 0, 0, NoId, NoTag))
    /\ gestures' = gestures + 1
    /\ last' = Step("page", "none", NoId, NoId)
    /\ xmove' = [NoMove EXCEPT !.phase = "page", !.from = currentPage, !.target = page]
    /\ UNCHANGED <<server, itemsPerPage, chapters, pagination, effPage, localChapters,
                   originalOrderRef, timerArmed, timerPage, pendingUpdateRef,
                   drags, fails, sent, sched, preDrag, server0, applied,
                   authVars,
                   debounceTimeoutRef, timeouts>>

(***************************************************************************)
(* handleDragEnd and the debounced update.                                 *)
(***************************************************************************)
\* variant: the check for a drop onto itself is missing
SameChapterNever(activeId, overId) == FALSE

\* if (activeId === overId) return
SameChapter(activeId, overId) == activeId = overId

\* newIndex === 0 && currentPage > 1 (indices are 1-based here)
isAtTop(newIndex) == newIndex = 1 /\ currentPage > 1

\* variant: the last index taken as localChapters.length
isAtBottomOffByOne(newIndex) ==
    /\ newIndex = Len(localChapters) + 1
    /\ pagination # NoPagination
    /\ pagination > currentPage

\* newIndex === localChapters.length - 1 && pagination && pagination.totalPages > currentPage
isAtBottom(newIndex) ==
    /\ newIndex = Len(localChapters)
    /\ pagination # NoPagination
    /\ pagination > currentPage

\* the branch handleDragEnd takes
Branch(activeId, overId) ==
    IF SameChapter(activeId, overId) THEN "self"
    ELSE IF isAtTop(FindIndex(localChapters, overId)) THEN "top"
    ELSE IF isAtBottom(FindIndex(localChapters, overId)) THEN "bottom"
    ELSE "inpage"

\* variant: the right neighbour's number itself
FirstPositionNumberSame(reordered) ==
    IF Len(reordered) >= 2 THEN Max(1, reordered[2].chapterNumber) ELSE 1

\* moving to first position: nextChapter ? Math.max(1, nextChapter.chapterNumber - 1) : 1
FirstPositionNumber(reordered) ==
    IF Len(reordered) >= 2 THEN Max(1, reordered[2].chapterNumber - 1) ELSE 1

\* variant: the left neighbour's number itself
LastPositionNumberSame(reordered, newIndex) ==
    IF newIndex >= 2 THEN reordered[newIndex - 1].chapterNumber ELSE 1

\* moving to last position: prevChapter ? prevChapter.chapterNumber + 1 : 1
LastPositionNumber(reordered, newIndex) ==
    IF newIndex >= 2 THEN reordered[newIndex - 1].chapterNumber + 1 ELSE 1

\* variant: Math.floor(prev + next / 2), the division binding to next alone
BetweenNumberPrecedence(reordered, newIndex) ==
    LET prev == reordered[newIndex - 1].chapterNumber
        next == reordered[newIndex + 1].chapterNumber
        mid == prev + FloorHalf(next)
    IN  IF mid = prev THEN prev + 1 ELSE mid

\* variant: the midpoint without the fallback for a midpoint equal to prev
BetweenNumberNoFallback(reordered, newIndex) ==
    LET prev == reordered[newIndex - 1].chapterNumber
        next == reordered[newIndex + 1].chapterNumber
    IN  FloorHalf(prev + next)

\* moving between items: the midpoint, or prev + 1 when the midpoint is prev
BetweenNumber(reordered, newIndex) ==
    LET prev == reordered[newIndex - 1].chapterNumber
        next == reordered[newIndex + 1].chapterNumber
        mid == FloorHalf(prev + next)
    IN  IF mid = prev THEN prev + 1 ELSE mid

\* ensure chapter number is at least 1
AtLeastOne(n) == Max(1, n)

\* same page reordering: the chapterNumber for the chapter now at newIndex
InPageNumber(reordered, newIndex) ==
    AtLeastOne(IF newIndex = 1 THEN FirstPositionNumber(reordered)
               ELSE IF newIndex = Len(reordered)
                    THEN LastPositionNumber(reordered, newIndex)
                    ELSE BetweenNumber(reordered, newIndex))

\* move to previous page: one more than the largest chapterNumber of that page
PrevPageNumber(data) ==
    LET sortedPrev == SortByNumber(data)
    IN  IF Len(sortedPrev) > 0
        THEN sortedPrev[Len(sortedPrev)].chapterNumber + 1
        ELSE 1

\* variant: the smallest chapterNumber of the next page itself
NextPageNumberSame(data) ==
    LET sortedNext == SortByNumber(data)
    IN  IF Len(sortedNext) > 0
        THEN Max(1, sortedNext[1].chapterNumber)
        ELSE 1

\* move to next page: one less than the smallest chapterNumber of that page
NextPageNumber(data) ==
    LET sortedNext == SortByNumber(data)
    IN  IF Len(sortedNext) > 0
        THEN Max(1, sortedNext[1].chapterNumber - 1)
        ELSE 1

\* variant: the timeout set before stays set
clearTimeoutNever(set, timeout) == set

\* clearTimeout(debounceTimeoutRef.current): a timeout that has fired, or null, is ignored
clearTimeout(set, timeout) == set \ {timeout}

\* variant: the cross-page branches call debouncedUpdateChapter as well
DebouncedAlways(branch) == branch \in {"inpage", "top", "bottom"}

\* the branches of handleDragEnd that end in debouncedUpdateChapter (line 291)
Debounced(branch) == branch = "inpage"

\* variant: the update scheduled for the chapter dropped onto
DebouncedChapterOver(activeId, overId) == overId

\* debouncedUpdateChapter(activeId, newChapterNumber): the chapter an in-page drop
\* schedules an update for
DebouncedChapter(activeId, overId) == activeId

\* debouncedUpdateChapter stores { chapterId, newChapterNumber } in pendingUpdateRef
PendingUpdate(chapterId, newChapterNumber) ==
    [chapterId |-> chapterId, newChapterNumber |-> newChapterNumber]

handleDragEnd(activeId, overId) ==
    LET oldIndex == FindIndex(localChapters, activeId)
        newIndex == FindIndex(localChapters, overId)
        branch == Branch(activeId, overId)
        targetPage == IF branch = "top" THEN currentPage - 1 ELSE currentPage + 1
        reorderedChapters == arrayMove(localChapters, oldIndex, newIndex)
        newChapterNumber == InPageNumber(reorderedChapters, newIndex)
        cross == branch \in {"top", "bottom"}
    IN  /\ ListShown
        /\ gestures < MaxGestures
        /\ activeId \in IdsOf(localChapters)
        /\ overId \in IdsOf(localChapters)
        /\ gestures' = gestures + 1
        /\ drags' = [inpage |-> drags.inpage + (IF branch = "inpage" THEN 1 ELSE 0),
                     cross |-> drags.cross + (IF cross THEN 1 ELSE 0),
                     ids |-> IF branch = "inpage" THEN drags.ids \cup {activeId}
                             ELSE drags.ids,
                     xids |-> IF cross THEN drags.xids \cup {activeId} ELSE drags.xids,
                     failed |-> FALSE]
        /\ last' = Step("drop", branch, activeId, overId)
        /\ net' = IF cross
                  THEN Issue(net, FetchReq(targetPage, "xAdj", currentPage, targetPage,
                                           activeId, NoTag))
                  ELSE net
        /\ loading' = IF cross THEN TRUE ELSE loading
        /\ xmove' = IF cross
                    THEN [phase |-> "run", from |-> currentPage, target |-> targetPage,
                          active |-> activeId, pre |-> originalOrderRef]
                    ELSE xmove
        /\ localChapters' = IF branch = "inpage" THEN reorderedChapters ELSE localChapters
        /\ timerArmed' = IF Debounced(branch) THEN TRUE ELSE timerArmed
        /\ timerPage' = IF Debounced(branch) THEN currentPage ELSE timerPage
        /\ pendingUpdateRef' = IF Debounced(branch)
                               THEN PendingUpdate(DebouncedChapter(activeId, overId),
                                                  newChapterNumber)
                               ELSE pendingUpdateRef
        /\ sched' = IF Debounced(branch)
                    THEN [k |-> sched.k + 1,
                          chapterId |-> DebouncedChapter(activeId, overId),
                          newChapterNumber |-> newChapterNumber,
                          since |-> IF sched.k = 0 THEN gestures + 1 ELSE sched.since]
                    ELSE sched
        /\ timeouts' = IF Debounced(branch)
                       THEN clearTimeout(timeouts, debounceTimeoutRef) \cup {gestures + 1}
                       ELSE timeouts
        /\ debounceTimeoutRef' = IF Debounced(branch) THEN gestures + 1
                                 ELSE debounceTimeoutRef
        /\ preDrag' = IF branch = "inpage" THEN localChapters ELSE preDrag
        /\ applied' = IF branch = "inpage" /\ {activeId, overId} \subseteq IdsOf(applied)
                      THEN arrayMove(applied, FindIndex(applied, activeId),
                                     FindIndex(applied, overId))
                      ELSE applied
        /\ UNCHANGED <<server, itemsPerPage, chapters, pagination, currentPage, effPage,
                       originalOrderRef, fails, sent, server0, authVars>>

\* the timeout set by debouncedUpdateChapter fires
TimerFire ==
    LET update == pendingUpdateRef
        send == update.chapterId # NoId
    IN  /\ Rendered
        /\ timerArmed
        /\ timerArmed' = FALSE
        /\ \E t \in timeouts : timeouts' = timeouts \ {t}
        /\ UNCHANGED debounceTimeoutRef
        /\ net' = IF send
                  THEN Issue(net, UpdateReq(update.chapterId, update.newChapterNumber,
                                            "dbUpdate", timerPage, 0, NoId,
                                            [k |-> sched.k, pre |-> preDrag]))
                  ELSE net
        /\ loading' = IF send THEN TRUE ELSE loading
        /\ sent' = IF send THEN Sent(update.chapterId, "debounce") ELSE sent
        /\ sched' = [sched EXCEPT !.k = 0, !.since = 0]
        /\ last' = [op |-> "timer", cont |-> IF send THEN "sent" ELSE "nothing",
                    active |-> update.chapterId, over |-> update.newChapterNumber,
                    tag |-> [k |-> sched.k, pre |-> <<>>]]
        /\ UNCHANGED <<server, itemsPerPage, chapters, pagination, currentPage, effPage,
                       localChapters, originalOrderRef, timerPage, pendingUpdateRef,
                       gestures, drags, fails, preDrag, xmove, server0, applied,
                   authVars>>

(***************************************************************************)
(* Responses.  Each action is the thunk's reducer (fulfilled or rejected)  *)
(* followed by the code that awaited the request, up to its next await.    *)
(***************************************************************************)
\* the catch blocks: showApiError, setLocalChapters(originalOrderRef.current),
\* dispatch(fetchChapters({ audiobookId: id, page: currentPage })) without await
Caught(r) == r.cont \in {"dbUpdate", "dbFetch", "xAdj", "xUpd", "xRef1", "xRef2"}

\* variant: the catch block sends a rejected update again
RecoverReqRetry(r) ==
    IF r.kind = "update"
    THEN UpdateReq(r.id, r.num, r.cont, r.cpage, r.target, r.active, r.tag)
    ELSE FetchReq(r.cpage, "recoverX", 0, 0, NoId, r.tag)

RecoverReq(r) ==
    FetchReq(r.cpage,
             IF r.cont = "dbUpdate" THEN "recoverUpd"
             ELSE IF r.cont = "dbFetch" THEN "recoverDb" ELSE "recoverX",
             0, 0, NoId, r.tag)

IsCross(r) == r.cont \in {"xAdj", "xUpd", "xRef1", "xRef2"}

Tracked(r) ==
    /\ IsCross(r)
    /\ xmove.phase = "run"
    /\ xmove.active = r.active
    /\ xmove.target = r.target
    /\ xmove.from = r.cpage

\* the chapterNumber a cross-page move submits, from the adjacent page's chapters
CrossPageNumber(r, data) ==
    IF r.target < r.cpage THEN PrevPageNumber(data) ELSE NextPageNumber(data)

\* fetchChapters.fulfilled
FetchFulfilled(r) ==
    \E data \in {ResponseData(server, itemsPerPage, r.page)} :
    LET follow == r.cont \in {"xAdj", "xRef1"}
        nxt == IF r.cont = "xAdj"
               THEN UpdateReq(r.active, CrossPageNumber(r, data), "xUpd",
                              r.cpage, r.target, r.active, NoTag)
               ELSE FetchReq(r.cpage, "xRef2", r.cpage, r.target, r.active, NoTag)
    IN  /\ Rendered
        /\ r \in InFlight
        /\ r.kind = "fetch"
        /\ chapters' = data
        /\ pagination' = TotalPages(server, itemsPerPage)
        /\ SyncLocal(data)
        /\ net' = IF follow THEN Issue(Answer(net, r), nxt) ELSE Answer(net, r)
        /\ loading' = follow
        /\ pendingUpdateRef' = IF r.cont = "dbFetch" THEN NullUpdate ELSE pendingUpdateRef
        /\ sent' = IF r.cont = "xAdj" THEN Sent(nxt.id, "cross") ELSE sent
        /\ xmove' = IF r.cont = "xRef2" /\ Tracked(r)
                    THEN [xmove EXCEPT !.phase = "ok"]
                    ELSE xmove
        /\ last' = StepOf("fetchOk", r)
        /\ applied' = IF drags.inpage = 0 THEN SortByNumber(data) ELSE applied
        /\ currentPage' = IF r.cont = "delRef" /\ r.target # r.cpage THEN r.target
                          ELSE currentPage
        /\ UNCHANGED <<server, itemsPerPage, effPage, timerArmed, timerPage,
                       gestures, drags, fails, sched, preDrag, server0, authVars,
                   debounceTimeoutRef, timeouts>>

\* fetchChapters.rejected
FetchRejected(r) ==
    /\ Rendered
    /\ r \in InFlight
    /\ r.kind = "fetch"
    /\ fails < MaxFail
    /\ fails' = fails + 1
    /\ net' = IF Caught(r) THEN Issue(Answer(net, r), RecoverReq(r)) ELSE Answer(net, r)
    /\ loading' = Caught(r)
    /\ localChapters' = IF Caught(r) THEN originalOrderRef ELSE localChapters
    /\ xmove' = IF Tracked(r) THEN [xmove EXCEPT !.phase = "failed"] ELSE xmove
    /\ last' = StepOf("fetchFail", r)
    /\ UNCHANGED <<server, itemsPerPage, chapters, pagination, currentPage, effPage,
                   originalOrderRef, timerArmed, timerPage, pendingUpdateRef,
                   gestures, drags, sent, sched, preDrag, server0, applied,
                   authVars,
                   debounceTimeoutRef, timeouts>>

\* updateChapterThunk.fulfilled
UpdateFulfilled(r) ==
    LET nxt == IF r.cont = "dbUpdate"
               THEN FetchReq(r.cpage, "dbFetch", r.cpage, 0, NoId, r.tag)
               ELSE FetchReq(r.target, "xRef1", r.cpage, r.target, r.active, NoTag)
    IN  /\ Rendered
        /\ r \in InFlight
        /\ r.kind = "update"
        /\ server' = ApplyUpdate(server, r.id, r.num)
        /\ currentPage' = IF r.cont = "xUpd" THEN r.target ELSE currentPage
        /\ net' = Issue(Answer(net, r), nxt)
        /\ loading' = TRUE
        /\ last' = StepOf("updateOk", r)
        /\ UNCHANGED <<itemsPerPage, chapters, pagination, effPage, localChapters,
                       originalOrderRef, timerArmed, timerPage, pendingUpdateRef,
                       gestures, drags, fails, sent, sched, preDrag, xmove, server0, applied,
                   authVars,
                   debounceTimeoutRef, timeouts>>

\* updateChapterThunk.rejected
UpdateRejected(r) ==
    /\ Rendered
    /\ r \in InFlight
    /\ r.kind = "update"
    /\ fails < MaxFail
    /\ fails' = fails + 1
    /\ net' = Issue(Answer(net, r), RecoverReq(r))
    /\ loading' = TRUE
    /\ localChapters' = originalOrderRef
    /\ xmove' = IF Tracked(r) THEN [xmove EXCEPT !.phase = "failed"] ELSE xmove
    /\ last' = StepOf("updateFail", r)
    /\ drags' = [drags EXCEPT !.failed = TRUE]
    /\ UNCHANGED <<server, itemsPerPage, chapters, pagination, currentPage, effPage,
                   originalOrderRef, timerArmed, timerPage, pendingUpdateRef,
                   gestures, sent, sched, preDrag, server0, applied,
                   authVars,
                   debounceTimeoutRef, timeouts>>

(***************************************************************************)
(* Deleting a chapter: handleDeleteConfirm and its continuations.          *)
(***************************************************************************)
\* pagination && currentPage > 1 && chapters.length === 1 ? currentPage - 1 : currentPage
DeleteTargetPage(page, list) ==
    IF pagination # NoPagination /\ page > 1 /\ Len(list) = 1 THEN page - 1 ELSE page

\* the delete dialog of a displayed chapter is confirmed: deleteChapterThunk is
\* dispatched; targetPage is computed later from the values of this render
handleDeleteConfirm(chapterId) ==
    /\ ListShown
    /\ gestures < MaxGestures
    /\ chapterId \in IdsOf(localChapters)
    /\ gestures' = gestures + 1
    /\ net' = Issue(net, DeleteReq(chapterId, currentPage,
                                   DeleteTargetPage(currentPage, chapters)))
    /\ loading' = TRUE
    /\ last' = Step("delete", "del", chapterId, NoId)
    /\ UNCHANGED <<server, itemsPerPage, chapters, pagination, currentPage, effPage,
                   localChapters, originalOrderRef, timerArmed, timerPage,
                   pendingUpdateRef, debounceTimeoutRef, timeouts, drags, fails, sent,
                   sched, preDrag, xmove, server0, applied, authVars>>

\* deleteChapterThunk.fulfilled, then the fetch of targetPage
DeleteFulfilled(r) ==
    /\ Rendered
    /\ r \in InFlight
    /\ r.kind = "delete"
    /\ server' = ApplyDelete(server, r.id)
    /\ net' = Issue(Answer(net, r), FetchReq(r.target, "delRef", r.cpage, r.target, r.id, NoTag))
    /\ loading' = TRUE
    /\ last' = StepOf("deleteOk", r)
    /\ UNCHANGED <<itemsPerPage, chapters, pagination, currentPage, effPage,
                   localChapters, originalOrderRef, timerArmed, timerPage,
                   pendingUpdateRef, debounceTimeoutRef, timeouts, gestures, drags, fails,
                   sent, sched, preDrag, xmove, server0, applied, authVars>>

\* deleteChapterThunk.rejected: the catch block shows the error
DeleteRejected(r) ==
    /\ Rendered
    /\ r \in InFlight
    /\ r.kind = "delete"
    /\ fails < MaxFail
    /\ fails' = fails + 1
    /\ net' = Answer(net, r)
    /\ loading' = FALSE
    /\ last' = StepOf("deleteFail", r)
    /\ UNCHANGED <<server, itemsPerPage, chapters, pagination, currentPage, effPage,
                   localChapters, originalOrderRef, timerArmed, timerPage,
                   pendingUpdateRef, debounceTimeoutRef, timeouts, gestures, drags,
                   sent, sched, preDrag, xmove, server0, applied, authVars>>

Next ==
    \/ FetchEffect
    \/ \E page \in 1..(2 * PageSize) : handlePageChange(page)
    \/ \E activeId, overId \in ChapterIds : handleDragEnd(activeId, overId)
    \/ TimerFire
    \/ \E r \in InFlight : FetchFulfilled(r)
    \/ \E r \in InFlight : FetchRejected(r)
    \/ \E r \in InFlight : UpdateFulfilled(r)
    \/ \E r \in InFlight : UpdateRejected(r)

Spec == Init /\ [][Next]_vars

\* every request eventually completes, an armed debounce timer eventually fires,
\* and React runs the effects of a render
Fairness ==
    /\ WF_vars(FetchEffect)
    /\ WF_vars(TimerFire)
    /\ WF_vars(\E r \in InFlight : FetchFulfilled(r) \/ FetchRejected(r))
    /\ WF_vars(\E r \in InFlight : UpdateFulfilled(r) \/ UpdateRejected(r))

\* the steps of a behaviour with at most LiveGestures gestures
NextLive ==
    \/ FetchEffect
    \/ \E page \in 1..(2 * PageSize) : gestures < LiveGestures /\ handlePageChange(page)
    \/ \E activeId, overId \in ChapterIds :
          gestures < LiveGestures /\ handleDragEnd(activeId, overId)
    \/ TimerFire
    \/ \E r \in InFlight : FetchFulfilled(r)
    \/ \E r \in InFlight : FetchRejected(r)
    \/ \E r \in InFlight : UpdateFulfilled(r)
    \/ \E r \in InFlight : UpdateRejected(r)

SpecLive == Init /\ [][NextLive]_vars /\ Fairness

\* a browser tab is opened at some path: nothing is stored in sessionStorage
InitApp ==
    /\ itemsPerPage = PageSize
    /\ server = [i \in ChapterIds |-> i]
    /\ server0 = server
    /\ InitClient
    /\ isAuthenticated = FALSE
    /\ sessionAuth = FALSE
    /\ accessToken = NoToken
    /\ location \in Paths
    /\ element = Element(location, FALSE)
    /\ initPending = TRUE
    /\ gateway = NoCall
    /\ httpRequests = 0

NextApp ==
    \/ \E path \in Paths : Load(path)
    \/ RunEffects
    \/ OpenChapters
    \/ BackToAudiobooks
    \/ \E ok \in BOOLEAN, a, t \in 0..MaxToken : handleSubmit(ok, a, t)
    \/ \E ok \in BOOLEAN : handleLogout(ok)
    \/ \E fn \in GatewayFunctions, hasFiles \in BOOLEAN : GatewayCall(fn, hasFiles)

SpecApp == InitApp /\ [][NextApp]_vars

\* an audiobook of two or three pages, the last page holding one chapter or two
InitDelete ==
    /\ itemsPerPage = PageSize
    /\ \E n \in (PageSize + 1)..MaxDeleteChapters : server = [i \in 1..n |-> i]
    /\ server0 = server
    /\ InitClient
    /\ InitSignedIn

\* the steps of a page on which chapters are deleted and pages are changed
NextDelete ==
    \/ FetchEffect
    \/ \E page \in 1..MaxDeleteChapters : handlePageChange(page)
    \/ \E chapterId \in 1..MaxDeleteChapters : handleDeleteConfirm(chapterId)
    \/ \E r \in InFlight : DeleteFulfilled(r)
    \/ \E r \in InFlight : DeleteRejected(r)
    \/ \E r \in InFlight : FetchFulfilled(r)
    \/ \E r \in InFlight : FetchRejected(r)

SpecDelete == InitDelete /\ [][NextDelete]_vars

\* the steps of a page with one page of chapters (no pagination bar)
NextNum ==
    \/ FetchEffect
    \/ \E activeId, overId \in SinglePageIds : handleDragEnd(activeId, overId)
    \/ TimerFire
    \/ \E r \in InFlight : FetchFulfilled(r)
    \/ \E r \in InFlight : FetchRejected(r)
    \/ \E r \in InFlight : UpdateFulfilled(r)
    \/ \E r \in InFlight : UpdateRejected(r)

SpecNum == InitNum /\ [][NextNum]_vars

(***************************************************************************)
(* Claims.                                                                 *)
(***************************************************************************)
\* every effect has run, no request is in flight and no debounce timer is armed
Settled == Rendered /\ net = EmptyBag /\ ~timerArmed

\* the step is the debounce timer firing
TimerStep == timerArmed /\ ~timerArmed'

\* the step issues exactly one request, the update r
IssuesOnly(r) ==
    /\ BagCardinality(net') = BagCardinality(net) + 1
    /\ CopiesIn(r, net') = CopiesIn(r, net) + 1

\* C1: when the debounce timer fires after k >= 1 schedulings, exactly one update
\* call is issued and it carries the chapter id and chapterNumber of the last
\* scheduling.
C1_TimerSendsLastScheduled ==
    [][TimerStep =>
          /\ sched.k >= 1
          /\ IssuesOnly(UpdateReq(sched.chapterId, sched.newChapterNumber, "dbUpdate",
                                  timerPage, 0, NoId, [k |-> sched.k, pre |-> preDrag]))
          /\ sent'.debounce = sent.debounce + 1]_vars

\* the state right after an in-page drop: the dragged chapter's index in the
\* reordered list, its new neighbours' chapterNumbers and the number scheduled
InPageDropped == last.op = "drop" /\ last.cont = "inpage"
DropIndex == FindIndex(localChapters, last.active)
DroppedBetween == InPageDropped /\ 1 < DropIndex /\ DropIndex < Len(localChapters)
DroppedFirst == InPageDropped /\ DropIndex = 1 /\ Len(localChapters) >= 2
DroppedLast == InPageDropped /\ DropIndex = Len(localChapters) /\ DropIndex >= 2
PrevNumber == localChapters[DropIndex - 1].chapterNumber
NextNumber == localChapters[DropIndex + 1].chapterNumber
Submitted == pendingUpdateRef.newChapterNumber

\* C2: when the debounced update of an in-page reorder has failed, after the
\* rollback and the successful re-fetch of the current page the displayed order
\* is the order displayed before the drag.
C2_FailedUpdateRestoresPreDragOrder ==
    (last.op = "fetchOk" /\ last.cont = "recoverUpd" /\ last.tag.k = 1)
        => localChapters = last.tag.pre

\* C3: after a successful cross-page move, once everything it triggered has
\* settled, the current page is the target page.
C3_MoveEndsOnTargetPage ==
    (xmove.phase = "ok" /\ Settled) => currentPage = xmove.target

\* the step is a drop of activeId onto overId
DropStep(activeId, overId) ==
    /\ gestures' = gestures + 1
    /\ last'.op = "drop"
    /\ last'.active = activeId
    /\ last'.over = overId

\* the step issues handleDragEnd's fetch of the adjacent page for activeId
IssuesAdjacentFetch(page, activeId) ==
    LET r == FetchReq(page, "xAdj", currentPage, page, activeId, NoTag)
    IN  CopiesIn(r, net') = CopiesIn(r, net) + 1

\* overId is the chapter at the boundary a cross-page move starts from
TopBoundary(overId) == FindIndex(localChapters, overId) = 1 /\ currentPage > 1
BottomBoundary(overId) ==
    /\ FindIndex(localChapters, overId) = Len(localChapters)
    /\ pagination > currentPage
    /\ ~TopBoundary(overId)

C5_OnlyDraggedChapterUpdated ==
    /\ sent.debounce <= drags.inpage
    /\ sent.ids \subseteq drags.ids
    /\ \A r \in InFlight : (r.kind = "update" /\ r.cont = "dbUpdate") => r.id \in drags.ids
    /\ (last.op = "timer" /\ last.cont = "sent") => last.active \in drags.ids
    /\ \A i \in DOMAIN server :
          i \notin (drags.ids \cup drags.xids) => server[i] = server0[i]

C5_Witness ==
    /\ last.op = "updateOk"
    /\ last.cont = "dbUpdate"
    /\ \E i \in DOMAIN server : server[i] # server0[i]
    /\ \E i \in DOMAIN server : i \notin (drags.ids \cup drags.xids)

\* C6 as stated: a drop between neighbours N and M with M - N >= 2 schedules a
\* chapterNumber strictly between N and M, whatever signed integers N and M are.
C6_BetweenIsStrictlyBetween ==
    (DroppedBetween /\ NextNumber - PrevNumber >= 2)
        => (PrevNumber < Submitted /\ Submitted < NextNumber)

\* C6 amended: the same for neighbours with M >= 2 (the scheduled number is never
\* below 1).
C6_BetweenIsStrictlyBetweenAboveOne ==
    (DroppedBetween /\ NextNumber - PrevNumber >= 2 /\ NextNumber >= 2)
        => (PrevNumber < Submitted /\ Submitted < NextNumber)

C6_Witness ==
    DroppedBetween /\ NextNumber - PrevNumber >= 3 /\ NextNumber >= 2

\* C7 as stated: a drop between neighbours numbered N and N + 1 schedules N + 1.
C7_AdjacentGivesNextNumber ==
    (DroppedBetween /\ NextNumber = PrevNumber + 1) => Submitted = PrevNumber + 1

\* C7 amended: the same for N >= 0.
C7_AdjacentGivesNextNumberFromZero ==
    (DroppedBetween /\ NextNumber = PrevNumber + 1 /\ PrevNumber >= 0)
        => Submitted = PrevNumber + 1

C7_Witness ==
    DroppedBetween /\ NextNumber = PrevNumber + 1 /\ PrevNumber >= 0

\* C8: a drop to index 0 whose right neighbour is numbered N schedules a number
\* in [1, N - 1] when N > 1, and 1 otherwise.
C8_FirstPositionNumber ==
    DroppedFirst =>
        IF NextNumber > 1
        THEN 1 <= Submitted /\ Submitted <= NextNumber - 1
        ELSE Submitted = 1

C8_Witness == DroppedFirst /\ NextNumber > 2

\* C9 as stated: a drop to the last index whose left neighbour is numbered N
\* schedules N + 1, whatever signed integer N is.
C9_LastPositionIsPrevPlusOne ==
    DroppedLast => Submitted = PrevNumber + 1

\* C9 amended: the drop schedules N + 1 for N >= 0, and 1 for negative N.
C9_LastPositionIsPrevPlusOneFromZero ==
    DroppedLast => Submitted = (IF PrevNumber >= 0 THEN PrevNumber + 1 ELSE 1)

C9_Witness == DroppedLast /\ PrevNumber >= 0 /\ Submitted = PrevNumber + 1

\* C10: a drop of a chapter onto itself issues no request, arms no timer and
\* leaves the displayed order, the rollback snapshot, the pending update and
\* the current page unchanged.
C10_SelfDropChangesNothing ==
    [][\A a \in ChapterIds :
          DropStep(a, a) =>
              UNCHANGED <<net, timerArmed, timerPage, localChapters, originalOrderRef,
                          pendingUpdateRef, currentPage, chapters, pagination, loading,
                          server, sent>>
      ]_vars

C10_Witness == last.op = "drop" /\ last.cont = "self" /\ ~timerArmed

\* the update calls of debounce timers that are in flight
DebouncedInFlight ==
    LET S == {r \in InFlight : r.kind = "update" /\ r.cont = "dbUpdate"}
    IN  BagCardinality([r \in S |-> net[r]])

\* C11: at most one debounced chapterNumber update call is in flight in every
\* reachable state.
C11_OneDebouncedUpdateInFlight == DebouncedInFlight <= 1

\* C12: while a debounce timer is armed the single slot pendingUpdateRef holds
\* the most recently scheduled (chapterId, chapterNumber) pair, whatever earlier
\* debounced updates are in flight or complete meanwhile, so the timer's firing
\* sends that pair.
C12_ArmedTimerHoldsLastScheduled ==
    timerArmed =>
        /\ sched.k >= 1
        /\ pendingUpdateRef = PendingUpdate(sched.chapterId, sched.newChapterNumber)

\* the server's chapters of page p, sorted ascending by chapterNumber
ServerPage(p) == SortByNumber(ResponseData(server, itemsPerPage, p))

\* C13: in every quiescent state (no timer armed, no request in flight) reached
\* without a failed request, the displayed order is the server's page currentPage
\* sorted ascending by chapterNumber.
C13_QuiescentShowsServerPage ==
    (Settled /\ effPage # 0 /\ fails = 0) => localChapters = ServerPage(currentPage)

\* the state right after a request of the last cross-page move has failed
CrossMoveFailed ==
    /\ last.op \in {"fetchFail", "updateFail"}
    /\ last.cont \in {"xAdj", "xUpd"}
    /\ xmove.phase = "failed"

\* the state right after the re-fetch that follows a failed cross-page move
CrossMoveRecovered ==
    /\ last.op = "fetchOk"
    /\ last.cont = "recoverX"
    /\ xmove.phase = "failed"

\* C14: when the adjacent-page fetch or the update call of a cross-page move is
\* rejected, the displayed order is reverted to the original page's order as it
\* was last fetched before the gesture, and after the re-fetch that follows has
\* succeeded it is the original page's server order.
C14_FailedMoveRestoresOriginalPage ==
    /\ CrossMoveFailed => localChapters = xmove.pre
    /\ CrossMoveRecovered => localChapters = ServerPage(xmove.from)

\* the update calls in flight
UpdatesInFlight ==
    LET S == {r \in InFlight : r.kind = "update"}
    IN  BagCardinality([r \in S |-> net[r]])

\* the step handles a rejected request
FailStep == fails' = fails + 1

\* C15 as stated: each drag gesture causes at most one update call, and after an
\* update call has failed no update call is issued until a new drag gesture.
C15_NoUpdateAfterFailureUntilNewDrag ==
    /\ [](sent.debounce <= drags.inpage /\ sent.cross <= drags.cross)
    /\ [][drags.failed => sent' = sent]_vars

\* C15 amended: update calls never outnumber the drag gestures that cause them, and the
\* handling of a rejected request issues no update call: a failed update is gone
\* from the calls in flight and nothing replaces it.
C15_FailedUpdateIsNotResent ==
    /\ [](sent.debounce <= drags.inpage /\ sent.cross <= drags.cross)
    /\ [][FailStep =>
              /\ sent' = sent
              /\ UpdatesInFlight' =
                     UpdatesInFlight - (IF last'.op = "updateFail" THEN 1 ELSE 0)]_vars

C15_Witness ==
    /\ last.op = "fetchOk"
    /\ last.cont \in {"recoverUpd", "recoverX"}
    /\ fails = 1
    /\ sent.debounce + sent.cross >= 1
    /\ Settled

\* C16: every drop gesture is followed by a state in which no debounce timer is
\* armed and no request is in flight, on the success path and on every failure
\* path.
C16_DropReturnsToIdle == (last.op = "drop") ~> Settled

C16_Witness ==
    /\ Settled
    /\ drags.inpage + drags.cross >= 1
    /\ fails = 1
    /\ last.op = "fetchOk"

\* C17: a protected page (home, audiobooks, chapters, dashboard, management,
\* inbox) is rendered only while auth.isAuthenticated is true; while it is false
\* a protected route renders a redirect, and the redirect leads to "/".
C17_ProtectedPagesNeedAuth ==
    /\ [](element.page \in ProtectedPages => isAuthenticated)
    /\ []((location \in ProtectedPaths /\ ~isAuthenticated) => element = Navigate("/"))
    /\ [][(element = Navigate("/") /\ ~initPending') => location' = "/"]_vars

\* a signed-in session reloads the app at a protected path: the first render
\* sees isAuthenticated = false
C17_Witness ==
    /\ location \in ProtectedPaths \ {"/home"}
    /\ ~isAuthenticated
    /\ sessionAuth
    /\ element = Navigate("/")

\* C18: the chapterNumber proposed for a new chapter is not the chapterNumber of
\* any chapter the audiobook has on the server, whichever page is displayed
\* (stated for the settled page after fetches that all succeeded).
C18_NextChapterNumberUnused ==
    (Settled /\ ~loading /\ fails = 0)
        => \A id \in DOMAIN server : server[id] # nextChapterNumber

\* C19: a gateway call (getChapters, updateChapter, deleteChapter) made while
\* no access token is stored fails with TokenNotFound and sends no HTTP request.
C19_NoTokenNoRequest ==
    [][((gateway' # gateway \/ httpRequests' # httpRequests) /\ accessToken = NoToken)
         => /\ gateway'.error = "TokenNotFound"
            /\ ~gateway'.sent
            /\ httpRequests' = httpRequests]_vars

C19_Witness ==
    /\ accessToken = NoToken
    /\ gateway.fn = "deleteChapter"
    /\ gateway.error = "TokenNotFound"
    /\ httpRequests = 0

\* the chapters listed are those of the server's page p
ShowsPage(p) ==
    /\ Len(localChapters) > 0
    /\ IdsOf(localChapters) = IdsOf(ResponseData(server, itemsPerPage, p))

\* C20: a drop of another chapter onto the chapter at index 0 while a page p > 1
\* is the page on display fetches page p - 1 (the update for the dragged chapter
\* follows that fetch) and does not reorder the displayed list.
C20_DropOnFirstOfLaterPageFetchesPrevious ==
    [][\A a, o \in ChapterIds, p \in 2..Len(server) :
          (a # o /\ DropStep(a, o) /\ FindIndex(localChapters, o) = 1 /\ ShowsPage(p))
              => /\ IssuesAdjacentFetch(p - 1, a)
                 /\ localChapters' = localChapters
      ]_vars

\* the smallest chapterNumber of a non-empty list of chapters
SmallestNumber(data) ==
    CHOOSE n \in {data[k].chapterNumber : k \in 1..Len(data)} :
        \A k \in 1..Len(data) : n <= data[k].chapterNumber

\* the chapterNumber C21 gives for a move in front of the chapters data
BeforePage(data) == IF Len(data) = 0 THEN 1 ELSE Max(1, SmallestNumber(data) - 1)

\* the step answers the adjacent-page fetch of a move to the next page
NextPageFetched ==
    /\ last' # last
    /\ last'.op = "fetchOk"
    /\ last'.cont = "xAdj"

\* C21: a drop of another chapter onto the chapter at the last index while
\* totalPages > currentPage issues the fetch of page currentPage + 1 and nothing
\* else, without reordering the displayed list; when that fetch succeeds exactly
\* one update is issued, for the dragged chapter, with chapterNumber
\* max(1, smallest chapterNumber of the fetched page - 1), or 1 for an empty page.
C21_DropOnLastFetchesNextPage ==
    [][/\ \A a, o \in ChapterIds :
            (a # o /\ DropStep(a, o) /\ BottomBoundary(o))
                => /\ IssuesAdjacentFetch(currentPage + 1, a)
                   /\ BagCardinality(net') = BagCardinality(net) + 1
                   /\ localChapters' = localChapters
       /\ NextPageFetched
              => /\ UpdatesInFlight' = UpdatesInFlight + 1
                 /\ \E r \in BagToSet(net') :
                        /\ r.kind = "update"
                        /\ r.cont = "xUpd"
                        /\ r.id = last'.active
                        /\ r.target = r.cpage + 1
                        /\ r.num = BeforePage(ResponseData(server, itemsPerPage, r.target))
                        /\ CopiesIn(r, net') = CopiesIn(r, net) + 1
      ]_vars

C21_Witness ==
    /\ last.op = "fetchOk"
    /\ last.cont = "xAdj"
    /\ sent.cross = 1
    /\ localChapters = ResponseData(server, itemsPerPage, 2)
    /\ \E r \in InFlight :
          /\ r.kind = "update"
          /\ r.id = last.active
          /\ r.num = BeforePage(localChapters)
          /\ r.target = 2

\* the update of the cross-page move on record has just been applied by the server
CrossUpdateApplied ==
    /\ last.op = "updateOk"
    /\ last.cont = "xUpd"
    /\ xmove.phase = "run"
    /\ xmove.active = last.active

\* C22: with the server paginating in ascending chapterNumber order and a fixed
\* page size, once the update of a cross-page move has succeeded the moved
\* chapter is one of the chapters of the page it was moved to.
C22_MovedChapterIsOnTargetPage ==
    CrossUpdateApplied => xmove.active \in PageIds(server, itemsPerPage, xmove.target)

\* the ids of a list of chapters, in the list's order
IdSeq(s) == [k \in 1..Len(s) |-> s[k].id]

\* the chapterNumbers on the server are positive and pairwise different, now
\* and when the page was opened
NoTies ==
    \A i, j \in DOMAIN server :
        /\ server0[i] >= 1
        /\ i # j => (server[i] # server[j] /\ server0[i] # server0[j])

\* every gesture so far was an in-page drop and no request has failed
OnlyInPageDrops == drags.inpage >= 1 /\ gestures = drags.inpage /\ fails = 0

\* C23: after in-page drops only, every issued update having succeeded, the
\* order displayed in the settled state is the first displayed list with every
\* drop applied in turn (stated for a server whose chapterNumbers are positive
\* and pairwise different).
C23_SettledOrderIsAllDropsApplied ==
    (Settled /\ OnlyInPageDrops /\ NoTies) => IdSeq(localChapters) = IdSeq(applied)

\* the gestures so far were page changes (and drops of a chapter onto itself),
\* the last page change asking for page xmove.target, and no request has failed
OnlyPageChanges ==
    /\ xmove.phase = "page"
    /\ drags.inpage = 0
    /\ drags.cross = 0
    /\ fails = 0

\* C24: after handlePageChange(p), once every effect and fetch has settled with
\* all fetches succeeding, currentPage is p and the store's chapters are page p.
C24_PageChangeSettlesOnPage ==
    (Settled /\ OnlyPageChanges)
        => /\ currentPage = xmove.target
           /\ chapters = ResponseData(server, itemsPerPage, xmove.target)

\* the step taken last ran a catch block of the one drop made so far: the error
\* was shown and localChapters was set to originalOrderRef
ErrorPathOfOnlyDrop ==
    /\ last.op \in {"fetchFail", "updateFail"}
    /\ last.cont \in {"dbUpdate", "dbFetch", "xAdj", "xUpd", "xRef1", "xRef2"}
    /\ gestures = 1
    /\ drags.inpage + drags.cross = 1

\* C25: when the error path of a gesture runs, the server has not applied the
\* gesture's update: the dragged chapter has the chapterNumber it had before the
\* gesture, and currentPage is the page of before the gesture.
C25_RollbackOnlyWhenNotApplied ==
    ErrorPathOfOnlyDrop
        => /\ \A i \in drags.ids \cup drags.xids : server[i] = server0[i]
           /\ currentPage = 1

\* the step belongs to a cross-page move: its drop, or the completion of one of
\* its requests
CrossStep ==
    /\ last' # last
    /\ \/ last'.op = "drop" /\ last'.cont \in {"top", "bottom"}
       \/ last'.op \in {"fetchOk", "fetchFail", "updateOk", "updateFail"}
            /\ last'.cont \in {"xAdj", "xUpd", "xRef1", "xRef2"}

\* the step puts one more copy of request r in flight
Issued(r) == CopiesIn(r, net') > CopiesIn(r, net)

\* the step is the successful completion of a request of the move of r, waited
\* for by cont
Completed(op, cont, r) ==
    /\ last'.op = op
    /\ last'.cont = cont
    /\ last'.active = r.active
    /\ \E q \in BagToSet(net) :
          /\ q.cont = cont
          /\ q.active = r.active
          /\ q.cpage = r.cpage
          /\ q.target = r.target
          /\ CopiesIn(q, net') = CopiesIn(q, net) - 1

\* C26: in a cross-page move the update is issued only by the successful
\* completion of the adjacent-page fetch; the refresh of the target page only by
\* the successful completion of the update, and the refresh of the original page
\* only by the successful completion of the first refresh; no step of the move
\* arms or cancels the debounce timer or changes the pending update.
C26_CrossPageMoveIsSequentialAndDirect ==
    [][/\ \A r \in BagToSet(net') :
            /\ (r.cont = "xUpd" /\ Issued(r))
                   => r.kind = "update" /\ Completed("fetchOk", "xAdj", r)
            /\ (r.cont = "xRef1" /\ Issued(r))
                   => r.page = r.target /\ Completed("updateOk", "xUpd", r)
            /\ (r.cont = "xRef2" /\ Issued(r))
                   => r.page = r.cpage /\ Completed("fetchOk", "xRef1", r)
       /\ CrossStep
              => /\ timerArmed' = timerArmed
                 /\ timeouts' = timeouts
                 /\ debounceTimeoutRef' = debounceTimeoutRef
                 /\ pendingUpdateRef' = pendingUpdateRef
      ]_vars

\* the last refresh of a cross-page move is in flight while the debounce timer of
\* an earlier in-page drop is still armed
C26_Witness ==
    /\ timerArmed
    /\ pendingUpdateRef.chapterId # NoId
    /\ \E r \in InFlight : r.kind = "fetch" /\ r.cont = "xRef2" /\ r.page = r.cpage

\* C27: at most one debounce timeout is set at any time: debouncedUpdateChapter
\* clears the timeout set before when it sets a new one, whatever currentPage the
\* callback was created for; the timeout that is set is the one
\* debounceTimeoutRef holds.
C27_AtMostOneTimerArmed ==
    /\ Cardinality(timeouts) <= 1
    /\ timerArmed <=> timeouts # {}
    /\ timeouts \subseteq {debounceTimeoutRef}

\* the third gesture, an in-page drop, has replaced the timeout set by the first
\* gesture; the gesture between them was a page change, so the callback that set
\* the second timeout is not the one that set the first
C27_Witness ==
    /\ timerArmed
    /\ sched.k = 2
    /\ sched.since = 1
    /\ gestures = 3
    /\ drags.inpage = 2
    /\ xmove.phase = "page"
    /\ debounceTimeoutRef = 3
    /\ timeouts = {3}

\* C28: right after an in-page drop, and with no request issued by it, the
\* displayed list is the list of before the drop with the dragged chapter taken
\* out and put at the index of the chapter dropped onto, the other chapters in
\* their order; it holds the same chapter ids, and originalOrderRef is unchanged.
C28_InPageDropMovesOneChapter ==
    [][\A a, o \in ChapterIds :
          (DropStep(a, o) /\ last'.cont = "inpage")
              => LET from == FindIndex(localChapters, a)
                     to == FindIndex(localChapters, o)
                 IN  /\ Len(localChapters') = Len(localChapters)
                     /\ localChapters'[to] = localChapters[from]
                     /\ RemoveAt(localChapters', to) = RemoveAt(localChapters, from)
                     /\ IdsOf(localChapters') = IdsOf(localChapters)
                     /\ originalOrderRef' = originalOrderRef
                     /\ net' = net
      ]_vars

\* the first of three chapters has just been dropped onto the last
C28_Witness ==
    /\ InPageDropped
    /\ Len(localChapters) = 3
    /\ preDrag[1].id = last.active
    /\ localChapters[3].id = last.active
    /\ localChapters[1] = preDrag[2]
    /\ localChapters[2] = preDrag[3]
    /\ originalOrderRef = preDrag

\* the page the list is on after a deletion from page p that showed list:
\* the page before when list was the only chapter of a page after the first
PageAfterDeletion(p, list) == IF p > 1 /\ Len(list) = 1 THEN p - 1 ELSE p

\* the step is the successful completion of a delete call
DeleteOkStep == last' # last /\ last'.op = "deleteOk"

\* the step is the failure of a delete call
DeleteFailStep == last' # last /\ last'.op = "deleteFail"

\* C29: after a successful deletion from the page p on display, the page that is
\* re-fetched is p - 1 when the deleted chapter was the only one shown and p > 1,
\* and p otherwise; currentPage is never below 1; a failed delete call issues no
\* fetch and leaves currentPage alone.
C29_DeletionRefetchesPageOnDisplay ==
    [][/\ \A p \in 1..MaxDeleteChapters :
            (DeleteOkStep /\ ShowsPage(p))
                => \E r \in BagToSet(net') :
                      /\ r.kind = "fetch"
                      /\ r.cont = "delRef"
                      /\ Issued(r)
                      /\ r.page = PageAfterDeletion(p, localChapters)
       /\ DeleteFailStep
              => /\ BagCardinality(net') = BagCardinality(net) - 1
                 /\ currentPage' = currentPage
       /\ currentPage' >= 1
      ]_vars

\* the step is handleLogout: the store's auth flag is cleared without a reload
LogoutStep == isAuthenticated /\ ~isAuthenticated' /\ ~initPending'

\* C30: after handleLogout, whether the logout request succeeded or failed, the
\* store's isAuthenticated is false, the sessionStorage auth flag is removed and
\* no access token is stored.
C30_LogoutClearsSession ==
    [][LogoutStep
          => /\ ~isAuthenticated'
             /\ ~sessionAuth'
             /\ accessToken' = NoToken
      ]_vars

====
